---- MODULE Spec2Model ----
(***************************************************************************)
(* SweetPi: the session / credit scheduler of api/game.js, the donations   *)
(* ledger of api/db.js and the administrative routes of api/admin.js.      *)
(*                                                                         *)
(* One action of the model is one handler of the program run to its end    *)
(* (an HTTP handler, a payment confirmation, a timer callback, a process   *)
(* restart): node runs each of them without interleaving.                  *)
(*                                                                         *)
(* Abstractions                                                            *)
(*  - created_at is a timestamp taken at each write; the model keeps the   *)
(*    rows in `order`, ascending by created_at (writes happen at distinct  *)
(*    instants), so "created_at = now" moves a row to the end.             *)
(*  - a deadline "Date.now() + W" is kept as the window length W.          *)
(*  - a timer handle whose timer has fired or was cleared is kept as       *)
(*    NoTimer: clearTimeout on it does nothing, as on null.                *)
(*  - amounts are counted in half euros.                                   *)
(***************************************************************************)
EXTENDS Integers, Sequences, FiniteSets, TLC

VARIABLES db, order, active, orphans, last, payment, pusherUp, gpioUp

vars == <<db, order, active, orphans, last, payment, pusherUp, gpioUp>>

---------------------------------------------------------------------------
(* Bounds of the model *)

NumDon == 2

MaxHalfEuros == 4

MaxAdminCredits == 1

MaxOrphans == 1

\* the largest amount of the payment followed in SpecCredits, in tenths of a euro
MaxTenths == 120

(* Program constants *)

CREDIT_MS == 35000

FIRST_MOVE_MS == 15000

GRAB_FINISH_MS == 7000

MaxCreditsPerDonation == 5

---------------------------------------------------------------------------
(* Values *)

Ids == 1..NumDon

Min(a, b) == IF a < b THEN a ELSE b

Max(a, b) == IF a > b THEN a ELSE b

\* the donations table: one row per id; "absent" = id not yet allocated by
\* AUTOINCREMENT, "deleted" = row removed (ids are never reused)
NoRow(st) == [status |-> st, credits_total |-> 0, credits_used |-> 0, credits_pulsed |-> FALSE]

HasRow(d, id) == id \in Ids /\ d[id].status \notin {"absent", "deleted"}

\* let active = null
Null == [null |-> TRUE]

NoTimer == [kind |-> "none", seq |-> 0, pending |-> FALSE]

\* what a handler returned (ret), what it sent to the actuator (grabPulse;
\* released: releaseAll; pulseN credit pulses scheduled for donation pulseId), the
\* donation ids of the player-start, player-end, player-timeout and credit-start
\* events it published, how many queue-update snapshots it published, whether it
\* consumed a credit, whether it logged a failed publish, whether it ended by
\* an exception (thrown), and the player-start, player-end and player-timeout
\* events in the order it published them (events)
NoOut == [ret |-> "none", grabPulse |-> FALSE, pulseId |-> 0, pulseN |-> 0,
          started |-> 0, ended |-> 0, timedOut |-> 0, consumed |-> FALSE,
          creditStart |-> 0, snapshot |-> 0, released |-> FALSE,
          logged |-> FALSE, thrown |-> FALSE, events |-> <<>>]

\* the events of a session's start and end
PlayerEvents == {"started", "ended", "timedOut"}

NoLossy == [first |-> FALSE, timer |-> FALSE]

\* the payment followed at the provider (SpecCredits): the donation it pays, its
\* amount in tenths of a euro, whether its confirmation was handled; none in the
\* other specifications, whose confirmations arrive and are handled in one step
NoPayment == [id |-> 0, tenths |-> 0, confirmed |-> FALSE]

Lossy == [first : BOOLEAN, timer : BOOLEAN]

\* the program state a handler works on
\* (dbUp: the store executes the statements of the handler; a statement that
\* fails raises)
State == [db |-> db, order |-> order, active |-> active, orphans |-> orphans, out |-> NoOut, ok |-> TRUE,
          pusherUp |-> pusherUp, gpioUp |-> gpioUp, dbUp |-> TRUE]

\* sequencing: s is the state after a call and t the state the statements after
\* it lead to; they are skipped once an exception is on its way up the stack
Then(s, t) == IF s.out.thrown THEN s ELSE t

---------------------------------------------------------------------------
(* api/db.js *)

Remove(seq, id) == SelectSeq(seq, LAMBDA x : x # id)

ToEnd(seq, id) == Append(Remove(seq, id), id)

createIntent(s, id) ==
    [s EXCEPT !.db[id] = NoRow("created"), !.order = Append(@, id)]

markIntentPaid(s, id, creditsTotal) ==
    IF HasRow(s.db, id)
    THEN [s EXCEPT !.db[id].credits_total = creditsTotal,
                   !.db[id].status = "waiting",
                   !.order = ToEnd(@, id)]
    ELSE s

setDonationStatus(s, id, status) ==
    IF HasRow(s.db, id) THEN [s EXCEPT !.db[id].status = status] ELSE s

requeueToEnd(s, id) ==
    IF HasRow(s.db, id)
    THEN [s EXCEPT !.db[id].status = "waiting", !.order = ToEnd(@, id)]
    ELSE s

markCreditsPulsed(s, id) ==
    IF HasRow(s.db, id) THEN [s EXCEPT !.db[id].credits_pulsed = TRUE] ELSE s

useOneCredit(s, id) ==
    IF ~s.dbUp THEN [s EXCEPT !.out.thrown = TRUE]
    ELSE IF HasRow(s.db, id)
    THEN [s EXCEPT !.db[id].credits_used =
                IF @ + 1 > s.db[id].credits_total THEN s.db[id].credits_total ELSE @ + 1]
    ELSE s

\* mutant: ORDER BY created_at DESC
listQueue_desc(s) ==
    LET q == SelectSeq(s.order, LAMBDA x : s.db[x].status \in {"waiting", "active"})
    IN [i \in 1..Len(q) |-> q[Len(q) + 1 - i]]

listQueue(s) == SelectSeq(s.order, LAMBDA x : s.db[x].status \in {"waiting", "active"})

adjustCredits(s, id, delta) ==
    IF HasRow(s.db, id)
    THEN LET nextTotal == Max(0, s.db[id].credits_total + delta)
             clampedTotal == Max(nextTotal, s.db[id].credits_used)
         IN [s EXCEPT !.db[id].credits_total = clampedTotal]
    ELSE s

setCreditsTotal(s, id, creditsTotal) ==
    IF HasRow(s.db, id)
    THEN LET nextTotal == Max(0, creditsTotal)
             clampedTotal == Max(nextTotal, s.db[id].credits_used)
         IN [s EXCEPT !.db[id].credits_total = clampedTotal]
    ELSE s

setCreditsUsed(s, id, creditsUsed) ==
    IF HasRow(s.db, id)
    THEN [s EXCEPT !.db[id].credits_used = Max(0, Min(creditsUsed, s.db[id].credits_total))]
    ELSE s

deleteDonationById(s, id) ==
    IF HasRow(s.db, id)
    THEN [s EXCEPT !.db[id] = NoRow("deleted"), !.order = Remove(@, id)]
    ELSE s

deleteAllDonations(s) ==
    [s EXCEPT !.db = [d \in Ids |-> IF HasRow(s.db, d) THEN NoRow("deleted") ELSE s.db[d]],
              !.order = <<>>]

---------------------------------------------------------------------------
(* Timers of the node event loop *)

\* mutant: clearTimeout never stops the callback
clearTimeout_never(s, h, lossy) ==
    IF h.pending
    THEN [s EXCEPT !.orphans = @ \cup {[kind |-> h.kind, seq |-> h.seq]}]
    ELSE s

\* clearTimeout(h). In SpecRace a cancellation may fail to stop the callback
\* (lossy): the timer stays pending in `orphans`, which holds at most MaxOrphans
\* callbacks, each once; with no room left the cancellation succeeds.
clearTimeout(s, h, lossy) ==
    IF h.pending /\ lossy /\ Cardinality(s.orphans) < MaxOrphans
    THEN [s EXCEPT !.orphans = @ \cup {[kind |-> h.kind, seq |-> h.seq]}]
    ELSE s

\* a handle overwritten without clearTimeout: its timer, if pending, stays pending
dropHandle(s, h) ==
    IF h.pending
    THEN [s EXCEPT !.orphans = @ \cup {[kind |-> h.kind, seq |-> h.seq]},
                   !.ok = @ /\ Cardinality(s.orphans) < MaxOrphans
                            /\ [kind |-> h.kind, seq |-> h.seq] \notin s.orphans]
    ELSE s

---------------------------------------------------------------------------
(* The actuator (api/gpio.js) *)

\* gpio.pulse('grab', 300): a call that fails raises
gpioPulseGrab(s) ==
    IF s.gpioUp THEN [s EXCEPT !.out.grabPulse = TRUE] ELSE [s EXCEPT !.out.thrown = TRUE]

\* gpio.releaseAll(): a call that fails raises
gpioReleaseAll(s) ==
    IF s.gpioUp THEN [s EXCEPT !.out.released = TRUE] ELSE [s EXCEPT !.out.thrown = TRUE]

---------------------------------------------------------------------------
(* api/game.js *)

\* mutant: pusher.trigger called bare, its exception not caught
safeTrigger_uncaught(s, event, value) ==
    IF s.pusherUp
    THEN [s EXCEPT !.out[event] = value,
                   !.out.events = IF event \in PlayerEvents THEN Append(@, event) ELSE @]
    ELSE [s EXCEPT !.out.thrown = TRUE]

\* safeTrigger: a publish that fails (throws, or rejects) is logged
safeTrigger(s, event, value) ==
    IF s.pusherUp
    THEN [s EXCEPT !.out[event] = value,
                   !.out.events = IF event \in PlayerEvents THEN Append(@, event) ELSE @]
    ELSE [s EXCEPT !.out.logged = TRUE]

\* broadcastQueue: the queue-update snapshot
broadcastQueue(s) == safeTrigger(s, "snapshot", s.out.snapshot + 1)

\* mutant: the cap of 5 forgotten
creditsGranted_uncapped(num, den) == num \div den

\* Math.min(5, Math.floor(amountEur)) for amountEur = num / den
creditsGranted(num, den) == Min(MaxCreditsPerDonation, num \div den)

\* the same, the amount given in half euros
creditsFor(halfEuros) == creditsGranted(halfEuros, 2)

\* mutant: a non-empty queue counts as someone waiting, the player included
someoneWaiting_queued(s) == Len(listQueue(s)) > 0

\* the test of the first-move callback: another participant is waiting
someoneWaiting(s) ==
    \E i \in 1..Len(listQueue(s)) :
        /\ s.db[listQueue(s)[i]].status = "waiting"
        /\ listQueue(s)[i] # s.active.donationId

\* mutant: the deadline is set but no timer is started
scheduleFirstMoveTimeout_noTimer(s, lossy) ==
    IF s.active = Null THEN s
    ELSE LET s1 == clearTimeout(s, s.active.firstMoveTimer, lossy.first)
         IN [s1 EXCEPT !.active.firstMoveDeadline = FIRST_MOVE_MS,
                       !.active.firstMoveTimer = NoTimer]

scheduleFirstMoveTimeout(s, lossy) ==
    IF s.active = Null THEN s
    ELSE LET s1 == clearTimeout(s, s.active.firstMoveTimer, lossy.first)
         IN [s1 EXCEPT !.active.firstMoveDeadline = FIRST_MOVE_MS,
                       !.active.firstMoveTimer = [kind |-> "first", seq |-> 0, pending |-> TRUE]]

\* the cleanup loop of maybeStartNext
sweepWaiting(s) ==
    [s EXCEPT !.db = [d \in Ids |->
        IF /\ s.db[d].status = "waiting"
           /\ s.db[d].credits_total - s.db[d].credits_used <= 0
        THEN [s.db[d] EXCEPT !.status = "done"]
        ELSE s.db[d]]]

\* mutant: the session starts with hasMoved set
newSession_moved(id, creditsRemaining) ==
    [donationId |-> id,
     creditsRemaining |-> creditsRemaining,
     timer |-> NoTimer,
     timerStarted |-> FALSE,
     creditEndsAt |-> 0,
     firstMoveDeadline |-> FIRST_MOVE_MS,
     firstMoveTimer |-> NoTimer,
     hasMoved |-> TRUE,
     grabUsed |-> FALSE,
     creditSeq |-> 0,
     creditConsumed |-> FALSE]

\* the session object built by maybeStartNext
newSession(id, creditsRemaining) ==
    [donationId |-> id,
     creditsRemaining |-> creditsRemaining,
     timer |-> NoTimer,
     timerStarted |-> FALSE,
     creditEndsAt |-> 0,
     firstMoveDeadline |-> FIRST_MOVE_MS,
     firstMoveTimer |-> NoTimer,
     hasMoved |-> FALSE,
     grabUsed |-> FALSE,
     creditSeq |-> 0,
     creditConsumed |-> FALSE]

\* mutant: the pulses sent whatever credits_pulsed says
pulseCredits_always(s, id, creditsRemaining) ==
    IF creditsRemaining > 0
    THEN markCreditsPulsed([s EXCEPT !.out.pulseId = id, !.out.pulseN = creditsRemaining], id)
    ELSE s

\* the pulses of one activation: one per remaining credit, once per donation
pulseCredits(s, id, creditsRemaining) ==
    IF ~s.db[id].credits_pulsed /\ creditsRemaining > 0
    THEN markCreditsPulsed([s EXCEPT !.out.pulseId = id, !.out.pulseN = creditsRemaining], id)
    ELSE s

\* mutant: maybeStartNext without its `if (active) return`
alreadyActive_never(s) == FALSE

\* the guard of maybeStartNext: someone is playing
alreadyActive(s) == s.active # Null

RECURSIVE maybeStartNext(_)
maybeStartNext(s) ==
    IF alreadyActive(s) THEN s
    ELSE LET s1 == sweepWaiting(s)
             waiting == SelectSeq(listQueue(s1), LAMBDA x : s1.db[x].status = "waiting")
         IN IF waiting = <<>> THEN broadcastQueue(s1)
            ELSE LET next == Head(waiting)
                     creditsRemaining == s1.db[next].credits_total - s1.db[next].credits_used
                 IN IF creditsRemaining <= 0
                    THEN maybeStartNext(setDonationStatus(s1, next, "done"))
                    ELSE LET s2 == [s1 EXCEPT !.active = newSession(next, creditsRemaining)]
                             s3 == setDonationStatus(s2, next, "active")
                             s4 == pulseCredits(s3, next, creditsRemaining)
                             s5 == scheduleFirstMoveTimeout(s4, NoLossy)
                             s6 == broadcastQueue(s5)
                         IN Then(s6, safeTrigger(s6, "started", next))

\* mutant: the ended player is requeued (requeueToEnd) instead of marked done
endActivePlayer_requeue(s, lossy) ==
    IF s.active = Null THEN s
    ELSE LET id == s.active.donationId
             s1 == clearTimeout(s, s.active.timer, lossy.timer)
             s2 == clearTimeout(s1, s.active.firstMoveTimer, lossy.first)
             s3 == [s2 EXCEPT !.active.timer = NoTimer, !.active.firstMoveTimer = NoTimer]
             s4 == gpioReleaseAll(s3)
             s5 == safeTrigger(requeueToEnd(s4, id), "ended", id)
         IN Then(s4, Then(s5, maybeStartNext([s5 EXCEPT !.active = Null])))

endActivePlayer(s, lossy) ==
    IF s.active = Null THEN s
    ELSE LET id == s.active.donationId
             s1 == clearTimeout(s, s.active.timer, lossy.timer)
             s2 == clearTimeout(s1, s.active.firstMoveTimer, lossy.first)
             s3 == [s2 EXCEPT !.active.timer = NoTimer, !.active.firstMoveTimer = NoTimer]
             s4 == gpioReleaseAll(s3)
             s5 == safeTrigger(setDonationStatus(s4, id, "done"), "ended", id)
         IN Then(s4, Then(s5, maybeStartNext([s5 EXCEPT !.active = Null])))

\* the callback of the first-move timer
firstMoveCallback(s, lossy) ==
    IF s.active = Null THEN s
    ELSE IF s.active.hasMoved THEN s
    ELSE IF someoneWaiting(s)
         THEN LET s1 == endActivePlayer(s, lossy)
              IN Then(s1, safeTrigger(s1, "timedOut", s.active.donationId))
    ELSE broadcastQueue(scheduleFirstMoveTimeout(s, lossy))

\* mutant: a move opens a credit window whether or not one is running
startCreditTimerIfNeeded_always(s, lossy) ==
    IF s.active = Null THEN s
    ELSE LET s1 == clearTimeout(s, s.active.firstMoveTimer, lossy.first)
             mySeq == s.active.creditSeq + 1
             s2 == [s1 EXCEPT !.active.hasMoved = TRUE,
                              !.active.firstMoveTimer = NoTimer,
                              !.active.timerStarted = TRUE,
                              !.active.creditEndsAt = CREDIT_MS,
                              !.active.creditSeq = mySeq,
                              !.active.creditConsumed = FALSE]
             s3 == safeTrigger(s2, "creditStart", s.active.donationId)
         IN Then(s3, [dropHandle(s3, s3.active.timer) EXCEPT
                         !.active.timer = [kind |-> "credit", seq |-> mySeq, pending |-> TRUE]])

startCreditTimerIfNeeded(s, lossy) ==
    IF s.active = Null \/ s.active.timerStarted THEN s
    ELSE LET s1 == clearTimeout(s, s.active.firstMoveTimer, lossy.first)
             mySeq == s.active.creditSeq + 1
             s2 == [s1 EXCEPT !.active.hasMoved = TRUE,
                              !.active.firstMoveTimer = NoTimer,
                              !.active.timerStarted = TRUE,
                              !.active.creditEndsAt = CREDIT_MS,
                              !.active.creditSeq = mySeq,
                              !.active.creditConsumed = FALSE]
             s3 == safeTrigger(s2, "creditStart", s.active.donationId)
         IN Then(s3, [dropHandle(s3, s3.active.timer) EXCEPT
                         !.active.timer = [kind |-> "credit", seq |-> mySeq, pending |-> TRUE]])

\* mutant: no creditConsumed check
consumeOneCreditSafely_unguarded(s) ==
    IF s.active = Null THEN [s |-> s, consumed |-> FALSE]
    ELSE LET s1 == [s EXCEPT !.active.creditConsumed = TRUE]
             s2 == useOneCredit(s1, s.active.donationId)
         IN IF s2.out.thrown THEN [s |-> s2, consumed |-> FALSE]
            ELSE [s |-> [s2 EXCEPT !.active.creditsRemaining = @ - 1,
                                   !.out.consumed = TRUE],
                  consumed |-> TRUE]

\* mutant: creditConsumed is set only once the store has taken the credit
consumeOneCreditSafely_storeFirst(s) ==
    IF s.active = Null THEN [s |-> s, consumed |-> FALSE]
    ELSE IF s.active.creditConsumed THEN [s |-> s, consumed |-> FALSE]
    ELSE LET s1 == useOneCredit(s, s.active.donationId)
         IN IF s1.out.thrown THEN [s |-> s1, consumed |-> FALSE]
            ELSE [s |-> [s1 EXCEPT !.active.creditConsumed = TRUE,
                                   !.active.creditsRemaining = @ - 1,
                                   !.out.consumed = TRUE],
                  consumed |-> TRUE]

\* consumeOneCreditSafely: the state after it and what it returned (nothing is
\* returned when useOneCredit raises: the callers stop on out.thrown)
consumeOneCreditSafely(s) ==
    IF s.active = Null THEN [s |-> s, consumed |-> FALSE]
    ELSE IF s.active.creditConsumed THEN [s |-> s, consumed |-> FALSE]
    ELSE LET s1 == [s EXCEPT !.active.creditConsumed = TRUE]
             s2 == useOneCredit(s1, s.active.donationId)
         IN IF s2.out.thrown THEN [s |-> s2, consumed |-> FALSE]
            ELSE [s |-> [s2 EXCEPT !.active.creditsRemaining = @ - 1,
                                   !.out.consumed = TRUE],
                  consumed |-> TRUE]

\* mutant: `creditsRemaining >= 0` keeps a session with no credit left
afterCredit_offByOne(s, lossy) ==
    LET c == consumeOneCreditSafely(s)
    IN IF ~c.consumed THEN c.s
       ELSE LET s1 == IF c.s.active.creditsRemaining >= 0
                      THEN scheduleFirstMoveTimeout(
                              [c.s EXCEPT !.active.timerStarted = FALSE,
                                          !.active.creditEndsAt = 0,
                                          !.active.hasMoved = FALSE,
                                          !.active.grabUsed = FALSE], lossy)
                      ELSE endActivePlayer(c.s, lossy)
            IN Then(s1, broadcastQueue(s1))

\* the end of a credit, shared by finishCreditNormally and the grab timer
afterCredit(s, lossy) ==
    LET c == consumeOneCreditSafely(s)
    IN IF ~c.consumed THEN c.s
       ELSE LET s1 == IF c.s.active.creditsRemaining > 0
                      THEN scheduleFirstMoveTimeout(
                              [c.s EXCEPT !.active.timerStarted = FALSE,
                                          !.active.creditEndsAt = 0,
                                          !.active.hasMoved = FALSE,
                                          !.active.grabUsed = FALSE], lossy)
                      ELSE endActivePlayer(c.s, lossy)
            IN Then(s1, broadcastQueue(s1))

finishCreditNormally(s, lossy) ==
    IF s.active = Null THEN s ELSE afterCredit(s, lossy)

\* mutant: the callbacks check `active` only, not the epoch
staleTimer_noEpoch(s, mySeq) == s.active = Null

\* the stale-timer guard of both credit-expiry callbacks
staleTimer(s, mySeq) == s.active = Null \/ s.active.creditSeq # mySeq

\* the callback of the 35 s credit timer
creditTimerCallback(s, mySeq, lossy) ==
    IF staleTimer(s, mySeq) THEN s ELSE finishCreditNormally(s, lossy)

\* the callback of the grab-finish timer
grabTimerCallback(s, mySeq, lossy) ==
    IF staleTimer(s, mySeq) THEN s ELSE afterCredit(s, lossy)

\* mutant: grabUsed is not looked at
grabAlreadyUsed_never(s) == FALSE

\* mutant: a grab is taken as used only once its credit is consumed
grabAlreadyUsed_late(s) == s.active.grabUsed /\ s.active.creditConsumed

\* the second guard of handleGrabIfAllowed
grabAlreadyUsed(s) == s.active.grabUsed

\* mutant: the grab leaves the full credit window open
handleGrabIfAllowed_fullWindow(s, lossy) ==
    IF s.active = Null THEN [s EXCEPT !.out.ret = "no_active"]
    ELSE IF grabAlreadyUsed(s) THEN [s EXCEPT !.out.ret = "grab_already_used"]
    ELSE LET s1 == IF ~s.active.timerStarted THEN startCreditTimerIfNeeded(s, lossy) ELSE s
             s2 == clearTimeout(s1, s1.active.timer, lossy.timer)
             mySeq == s1.active.creditSeq + 1
             s3 == [s2 EXCEPT !.active.timer = NoTimer,
                              !.active.grabUsed = TRUE,
                              !.active.creditEndsAt = CREDIT_MS,
                              !.active.creditSeq = mySeq,
                              !.active.creditConsumed = FALSE]
             s4 == safeTrigger(s3, "creditStart", s.active.donationId)
             s5 == gpioPulseGrab(s4)
         IN Then(s1, Then(s4, Then(s5,
                [s5 EXCEPT !.active.timer = [kind |-> "grab", seq |-> mySeq, pending |-> TRUE],
                           !.out.ret = "ok"])))

\* mutant: the grab pulse sent before the checks
handleGrabIfAllowed_pulseFirst(s, lossy) ==
    IF s.active = Null THEN [gpioPulseGrab(s) EXCEPT !.out.ret = "no_active"]
    ELSE IF grabAlreadyUsed(s) THEN [gpioPulseGrab(s) EXCEPT !.out.ret = "grab_already_used"]
    ELSE [s EXCEPT !.active.grabUsed = TRUE, !.out.ret = "ok"]

handleGrabIfAllowed(s, lossy) ==
    IF s.active = Null THEN [s EXCEPT !.out.ret = "no_active"]
    ELSE IF grabAlreadyUsed(s) THEN [s EXCEPT !.out.ret = "grab_already_used"]
    ELSE LET s1 == IF ~s.active.timerStarted THEN startCreditTimerIfNeeded(s, lossy) ELSE s
             s2 == clearTimeout(s1, s1.active.timer, lossy.timer)
             mySeq == s1.active.creditSeq + 1
             s3 == [s2 EXCEPT !.active.timer = NoTimer,
                              !.active.grabUsed = TRUE,
                              !.active.creditEndsAt = GRAB_FINISH_MS,
                              !.active.creditSeq = mySeq,
                              !.active.creditConsumed = FALSE]
             s4 == safeTrigger(s3, "creditStart", s.active.donationId)
             s5 == gpioPulseGrab(s4)
         IN Then(s1, Then(s4, Then(s5,
                [s5 EXCEPT !.active.timer = [kind |-> "grab", seq |-> mySeq, pending |-> TRUE],
                           !.out.ret = "ok"])))

handlePaidDonation(s, id, halfEuros) ==
    LET s1 == maybeStartNext(markIntentPaid(s, id, creditsFor(halfEuros)))
    IN Then(s1, broadcastQueue(s1))

\* handlePaidDonation, the amount given in tenths of a euro
handlePaidTenths(s, id, tenths) ==
    LET s1 == maybeStartNext(markIntentPaid(s, id, creditsGranted(tenths, 10)))
    IN Then(s1, broadcastQueue(s1))

\* mutant: any caller with a donation passes while a session exists
isActiveTokenDonation_any(s, id) == s.active # Null /\ id # 0

\* isActiveTokenDonation(donation); id 0 stands for no donation (unknown token)
isActiveTokenDonation(s, id) == s.active # Null /\ id # 0 /\ id = s.active.donationId

\* mutant: the heartbeat also tries to start the next player
heartbeat_kicks(s) ==
    IF s.active # Null \/ Len(listQueue(s)) > 0
    THEN LET s1 == maybeStartNext(s)
         IN [Then(s1, broadcastQueue(s1)) EXCEPT !.out.thrown = FALSE]
    ELSE s

\* the callback of the heartbeat interval; what it throws is caught and logged
heartbeat(s) ==
    IF s.active # Null \/ Len(listQueue(s)) > 0
    THEN [broadcastQueue(s) EXCEPT !.out.thrown = FALSE]
    ELSE s

\* mutant: active rows demoted, the depleted waiting rows not swept
recoverAfterRestart_noSweep(s) ==
    [s EXCEPT !.db = [d \in Ids |->
        IF s.db[d].status = "active"
        THEN [s.db[d] EXCEPT !.status = "waiting"] ELSE s.db[d]]]

\* mutant: the interrupted participant is requeued to the end (requeueToEnd)
recoverAfterRestart_requeue(s) ==
    LET s1 == IF \E d \in Ids : s.db[d].status = "active"
              THEN requeueToEnd(s, CHOOSE d \in Ids : s.db[d].status = "active")
              ELSE s
    IN [s1 EXCEPT !.db = [d \in Ids |->
            IF /\ s1.db[d].status = "waiting"
               /\ s1.db[d].credits_total - s1.db[d].credits_used <= 0
            THEN [s1.db[d] EXCEPT !.status = "done"]
            ELSE s1.db[d]]]

recoverAfterRestart(s) ==
    LET s1 == [s EXCEPT !.db = [d \in Ids |->
                  IF s.db[d].status = "active"
                  THEN [s.db[d] EXCEPT !.status = "waiting"] ELSE s.db[d]]]
    IN [s1 EXCEPT !.db = [d \in Ids |->
            IF /\ s1.db[d].status = "waiting"
               /\ s1.db[d].credits_total - s1.db[d].credits_used <= 0
            THEN [s1.db[d] EXCEPT !.status = "done"]
            ELSE s1.db[d]]]

---------------------------------------------------------------------------
(* api/admin.js *)

\* game.forceEndActive is not exported by game.js: the fallback branch runs
safeForceEndActive(s) ==
    LET s1 == IF s.active # Null THEN setDonationStatus(s, s.active.donationId, "done") ELSE s
        s2 == maybeStartNext(s1)
    IN Then(s2, broadcastQueue(s2))

\* POST /status/set; game.forceActivateDonation is not exported: the fallback runs
statusSet(s, id, status) ==
    LET s1 == IF s.active # Null /\ s.active.donationId = id
              THEN safeForceEndActive(s) ELSE s
        s2 == IF status = "active"
              THEN maybeStartNext(setDonationStatus(s, id, "waiting"))
              ELSE Then(s1, maybeStartNext(setDonationStatus(s1, id, status)))
    IN Then(s2, broadcastQueue(s2))

\* DELETE /donations/:id
deleteOne(s, id) ==
    LET s1 == IF s.active # Null /\ s.active.donationId = id
              THEN safeForceEndActive(s) ELSE s
        s2 == maybeStartNext(deleteDonationById(s1, id))
    IN Then(s1, Then(s2, broadcastQueue(s2)))

\* a credits / requeue / start-next route once its store call is made:
\* game.maybeStartNext(); game.broadcastQueue()
startAndBroadcast(s) ==
    LET s1 == maybeStartNext(s)
    IN Then(s1, broadcastQueue(s1))

---------------------------------------------------------------------------
(* The control routes (POST /api/control/press, /api/control/grab) *)

\* onControlAction(participantId, action): a caller that is not the holder is
\* rejected with not_active; the holder's move is recordFirstAction
\* (startCreditTimerIfNeeded), its grab is handleGrab (handleGrabIfAllowed)
onControlAction(s, id, action, lossy) ==
    IF ~isActiveTokenDonation(s, id) THEN [s EXCEPT !.out.ret = "not_active"]
    ELSE IF action = "move" THEN startCreditTimerIfNeeded(s, lossy)
    ELSE handleGrabIfAllowed(s, lossy)

---------------------------------------------------------------------------
(* The state machine *)

Statuses == {"created", "waiting", "active", "done"}

NoLast == [op |-> "boot", stale |-> FALSE, seq |-> 0, out |-> NoOut]

Init ==
    /\ db = [d \in Ids |-> NoRow("absent")]
    /\ order = <<>>
    /\ active = Null
    /\ orphans = {}
    /\ last = NoLast
    /\ payment = NoPayment
    /\ pusherUp = TRUE
    /\ gpioUp = TRUE

\* a handler ran from State to s; `last` keeps which one (for a timer callback:
\* the epoch it captured, and whether its cancellation had failed) and its output
Commit(s, op, stale, seq) ==
    /\ s.ok
    /\ db' = s.db
    /\ order' = s.order
    /\ active' = s.active
    /\ orphans' = s.orphans
    /\ last' = [op |-> op, stale |-> stale, seq |-> seq, out |-> s.out]
    /\ payment' = payment
    /\ pusherUp' = pusherUp
    /\ gpioUp' = gpioUp

\* POST /api/donations: a new intent takes the next id
CreateIntent ==
    \E id \in Ids :
        /\ db[id].status = "absent"
        /\ \A e \in Ids : e < id => db[e].status # "absent"
        /\ Commit(createIntent(State, id), "createIntent", FALSE, 0)

\* the payment provider confirms a payment (a confirmation may be repeated)
Pay ==
    \E id \in Ids, h \in 1..MaxHalfEuros :
        /\ HasRow(db, id)
        /\ Commit(handlePaidDonation(State, id, h), "pay", FALSE, 0)

\* the holder's move
Move(lossy) ==
    /\ active # Null
    /\ Commit(startCreditTimerIfNeeded(State, lossy), "move", FALSE, 0)

\* a grab request
Grab(lossy) ==
    Commit(handleGrabIfAllowed(State, lossy), "grab", FALSE, 0)

\* the pending first-move timer of the session fires
FirstMoveTimer(lossy) ==
    /\ active # Null
    /\ active.firstMoveTimer.pending
    /\ Commit(firstMoveCallback([State EXCEPT !.active.firstMoveTimer = NoTimer], lossy),
              "firstMoveTimer", FALSE, 0)

\* the pending credit timer of the session fires
CreditTimer(lossy) ==
    /\ active # Null
    /\ active.timer.pending
    /\ LET s0 == [State EXCEPT !.active.timer = NoTimer]
           t == active.timer
       IN IF t.kind = "credit"
          THEN Commit(creditTimerCallback(s0, t.seq, lossy), "creditTimer", FALSE, t.seq)
          ELSE Commit(grabTimerCallback(s0, t.seq, lossy), "grabTimer", FALSE, t.seq)

\* a timer whose cancellation failed fires
OrphanTimer(lossy) ==
    \E t \in orphans :
        LET s0 == [State EXCEPT !.orphans = @ \ {t}]
        IN CASE t.kind = "first" ->
                  Commit(firstMoveCallback(s0, lossy), "firstMoveTimer", TRUE, 0)
             [] t.kind = "credit" ->
                  Commit(creditTimerCallback(s0, t.seq, lossy), "creditTimer", TRUE, t.seq)
             [] t.kind = "grab" ->
                  Commit(grabTimerCallback(s0, t.seq, lossy), "grabTimer", TRUE, t.seq)

\* the heartbeat interval fires
Heartbeat ==
    Commit(heartbeat(State), "heartbeat", FALSE, 0)

\* the process restarts: memory and timers are lost, recoverAfterRestart runs
Restart ==
    Commit(recoverAfterRestart([State EXCEPT !.active = Null, !.orphans = {}]),
           "restart", FALSE, 0)

AdminCreditsAdd ==
    \E id \in Ids, delta \in {-1, 1} :
        /\ HasRow(db, id)
        /\ db[id].credits_total + delta <= MaxAdminCredits
        /\ Commit(startAndBroadcast(adjustCredits(State, id, delta)), "admin", FALSE, 0)

AdminSetTotal ==
    \E id \in Ids, n \in 0..MaxAdminCredits :
        /\ HasRow(db, id)
        /\ Commit(startAndBroadcast(setCreditsTotal(State, id, n)), "admin", FALSE, 0)

AdminSetUsed ==
    \E id \in Ids, n \in 0..MaxAdminCredits :
        /\ HasRow(db, id)
        /\ Commit(startAndBroadcast(setCreditsUsed(State, id, n)), "admin", FALSE, 0)

AdminRequeue ==
    \E id \in Ids :
        /\ HasRow(db, id)
        /\ Commit(startAndBroadcast(requeueToEnd(State, id)), "admin", FALSE, 0)

AdminStatusSet ==
    \E id \in Ids, status \in Statuses :
        /\ HasRow(db, id)
        /\ Commit(statusSet(State, id, status), "admin", FALSE, 0)

AdminEndActive ==
    Commit(safeForceEndActive(State), "admin", FALSE, 0)

AdminStartNext ==
    Commit(startAndBroadcast(State), "admin", FALSE, 0)

AdminDelete ==
    \E id \in Ids :
        /\ HasRow(db, id)
        /\ Commit(deleteOne(State, id), "admin", FALSE, 0)

AdminDeleteAll ==
    LET s1 == safeForceEndActive(State)
    IN Commit(Then(s1, broadcastQueue(deleteAllDonations(s1))), "admin", FALSE, 0)

Admin ==
    \/ AdminCreditsAdd
    \/ AdminSetTotal
    \/ AdminSetUsed
    \/ AdminRequeue
    \/ AdminStatusSet
    \/ AdminEndActive
    \/ AdminStartNext
    \/ AdminDelete
    \/ AdminDeleteAll

\* node's timers: clearTimeout always stops the callback
Next ==
    \/ CreateIntent
    \/ Pay
    \/ Move(NoLossy)
    \/ Grab(NoLossy)
    \/ FirstMoveTimer(NoLossy)
    \/ CreditTimer(NoLossy)
    \/ Heartbeat
    \/ Restart
    \/ Admin

Spec == Init /\ [][Next]_vars

\* best-effort cancellation (spec section 5): a cleared timer's callback may still
\* run. The administrative routes are left out of this specification.
NextRace ==
    \/ CreateIntent
    \/ Pay
    \/ \E lossy \in Lossy : Move(lossy)
    \/ \E lossy \in Lossy : Grab(lossy)
    \/ \E lossy \in Lossy : FirstMoveTimer(lossy)
    \/ \E lossy \in Lossy : CreditTimer(lossy)
    \/ \E lossy \in Lossy : OrphanTimer(lossy)
    \/ Restart

SpecRace == Init /\ [][NextRace]_vars

\* the program with no administrative request: payments, control input, timers
\* and restarts only (a row then leaves `created` by a payment confirmation only)
NextPlay ==
    \/ CreateIntent
    \/ Pay
    \/ Move(NoLossy)
    \/ Grab(NoLossy)
    \/ FirstMoveTimer(NoLossy)
    \/ CreditTimer(NoLossy)
    \/ Heartbeat
    \/ Restart

SpecPlay == Init /\ [][NextPlay]_vars

\* the realtime server goes down or comes back
PusherFlips ==
    /\ pusherUp' = ~pusherUp
    /\ UNCHANGED <<db, order, active, orphans, last, payment, gpioUp>>

\* the actuator starts or stops failing
GpioFlips ==
    /\ gpioUp' = ~gpioUp
    /\ UNCHANGED <<db, order, active, orphans, last, payment, pusherUp>>

\* the program with no administrative request, its publishes failing at times
NextPusherDown ==
    \/ NextPlay
    \/ PusherFlips

SpecPusherDown == Init /\ [][NextPusherDown]_vars

\* the program with no administrative request, its actuator calls failing at times
NextGpioDown ==
    \/ NextPlay
    \/ GpioFlips

SpecGpioDown == Init /\ [][NextGpioDown]_vars

ControlActions == {"move", "grab"}

\* the callers of the control routes: the participants with a record, and 0 for a
\* token that belongs to nobody
Callers == {0} \cup {d \in Ids : HasRow(db, d)}

\* a control request of caller id is served
ControlAction(id, action, lossy) ==
    /\ id \in Callers
    /\ Commit(onControlAction(State, id, action, lossy), action, FALSE, 0)

\* the program with no administrative request, its control input arriving through
\* the control routes, from any participant
NextControl ==
    \/ CreateIntent
    \/ Pay
    \/ \E id \in 0..NumDon, action \in ControlActions : ControlAction(id, action, NoLossy)
    \/ FirstMoveTimer(NoLossy)
    \/ CreditTimer(NoLossy)
    \/ Restart

SpecControl == Init /\ [][NextControl]_vars

\* the pending credit timer of the session fires while the store fails: the
\* statement of useOneCredit raises
CreditTimerStoreDown ==
    /\ active # Null
    /\ active.timer.pending
    /\ LET s0 == [State EXCEPT !.active.timer = NoTimer, !.dbUp = FALSE]
           t == active.timer
       IN IF t.kind = "credit"
          THEN Commit(creditTimerCallback(s0, t.seq, NoLossy), "creditTimer", FALSE, t.seq)
          ELSE Commit(grabTimerCallback(s0, t.seq, NoLossy), "grabTimer", FALSE, t.seq)

\* the program with no administrative request, the store failing at times when a
\* credit is consumed
NextStoreDown ==
    \/ NextPlay
    \/ CreditTimerStoreDown

SpecStoreDown == Init /\ [][NextStoreDown]_vars

\* the first confirmation of a payment: one per donation, none repeated
PayOnce ==
    \E id \in Ids, h \in 1..MaxHalfEuros :
        /\ db[id].status = "created"
        /\ Commit(handlePaidDonation(State, id, h), "pay", FALSE, 0)

\* the program with no administrative request, no repeated confirmation and no
\* failing collaborator, under node's event loop: a timer that stays scheduled
\* fires (setTimeout of the first-move and credit windows, setInterval of the
\* heartbeat)
NextFair ==
    \/ CreateIntent
    \/ PayOnce
    \/ Move(NoLossy)
    \/ Grab(NoLossy)
    \/ FirstMoveTimer(NoLossy)
    \/ CreditTimer(NoLossy)
    \/ Heartbeat
    \/ Restart

\* ENABLED <<FirstMoveTimer(NoLossy)>>_vars: the first-move timer is pending and
\* its callback changes the state (it ends the session when someone waits; a
\* renewal may leave the state as the previous renewal left it)
FirstMoveTimerEnabled ==
    /\ active # Null
    /\ active.firstMoveTimer.pending
    /\ (someoneWaiting(State) \/ ENABLED <<FirstMoveTimer(NoLossy)>>_vars)

\* ENABLED <<CreditTimer(NoLossy)>>_vars: the credit or grab-finish timer is
\* pending (its callback gives up the handle)
CreditTimerEnabled == active # Null /\ active.timer.pending

\* weak fairness of the three timers; for the two setTimeout timers WF_vars(A) is
\* written out as []<>~ENABLED <<A>>_vars \/ []<><<A>>_vars
SpecFair ==
    /\ Init /\ [][NextFair]_vars
    /\ WF_vars(Heartbeat)
    /\ ([]<>~FirstMoveTimerEnabled \/ []<><<FirstMoveTimer(NoLossy)>>_vars)
    /\ ([]<>~CreditTimerEnabled \/ []<><<CreditTimer(NoLossy)>>_vars)

InitCredits ==
    /\ db = [d \in Ids |-> IF d = 1 THEN NoRow("created") ELSE NoRow("absent")]
    /\ order = <<1>>
    /\ active = Null
    /\ orphans = {}
    /\ last = NoLast
    /\ \E a \in 0..MaxTenths : payment = [id |-> 1, tenths |-> a, confirmed |-> FALSE]
    /\ pusherUp = TRUE
    /\ gpioUp = TRUE

\* the provider confirms the open payment: handlePaidDonation with its amount
ConfirmPayment ==
    /\ payment.id # 0
    /\ ~payment.confirmed
    /\ LET s == handlePaidTenths(State, payment.id, payment.tenths)
       IN /\ db' = s.db
          /\ order' = s.order
          /\ active' = s.active
          /\ orphans' = s.orphans
          /\ last' = [op |-> "pay", stale |-> FALSE, seq |-> 0, out |-> s.out]
    /\ payment' = [payment EXCEPT !.confirmed = TRUE]
    /\ UNCHANGED <<pusherUp, gpioUp>>

NextCredits == ConfirmPayment

SpecCredits == InitCredits /\ [][NextCredits]_vars

---------------------------------------------------------------------------
(* Claims *)

Remaining(d, id) == d[id].credits_total - d[id].credits_used

IsExpiry(op) == op \in {"creditTimer", "grabTimer"}

\* C1: at most one participant has persisted status `active` (and `active` holds
\* at most one session), whatever payments, control actions, timer expirations,
\* restarts and administrative operations have run.
C1_AtMostOneActive ==
    Cardinality({d \in Ids : db[d].status = "active"}) <= 1

\* an administrative operation ran while one participant plays and another,
\* with credits left, waits
C1_Witness ==
    /\ last.op = "admin"
    /\ active # Null
    /\ db[active.donationId].status = "active"
    /\ \E b \in Ids : b # active.donationId /\ db[b].status = "waiting" /\ Remaining(db, b) > 0

\* C2: every participant has 0 <= creditsUsed <= creditsTotal in every reachable state.
C2_UsedWithinTotal ==
    \A d \in Ids : HasRow(db, d) =>
        0 <= db[d].credits_used /\ db[d].credits_used <= db[d].credits_total

\* C3: a credit-expiry callback (normal or grab-finish) that fires with a captured
\* epoch other than the session's creditSeq, or with no session, changes nothing:
\* no credit consumed, no session field, no participant record.
C3_StaleExpiryNoEffect ==
    [][(IsExpiry(last'.op) /\ (active = Null \/ active.creditSeq # last'.seq))
        => /\ db' = db
           /\ order' = order
           /\ active' = active
           /\ orphans' \subseteq orphans
           /\ last'.out = NoOut]_vars

\* a superseded full-window callback has fired during a session whose live
\* grab-finish timer is still pending
C3_Witness ==
    /\ last.op = "creditTimer"
    /\ last.stale
    /\ active # Null
    /\ last.seq # active.creditSeq
    /\ active.timer.pending
    /\ active.timer.kind = "grab"

\* C4: a credit is charged at most once per epoch: an expiry callback that finds
\* creditConsumed set (or another epoch) charges nothing, one that charges takes
\* exactly one credit from the store (clamped at creditsTotal) and from
\* creditsRemaining and sets creditConsumed, and creditConsumed stays set for as
\* long as the session stays in that epoch.
C4_OneChargePerEpoch ==
    [][active # Null =>
        LET A == active.donationId
            same == active' # Null /\ active'.donationId = A
                    /\ active'.creditSeq = active.creditSeq
        IN /\ (IsExpiry(last'.op) /\ (active.creditConsumed \/ active.creditSeq # last'.seq))
                => /\ db' = db
                   /\ same
                   /\ active'.creditsRemaining = active.creditsRemaining
                   /\ ~last'.out.consumed
           /\ (IsExpiry(last'.op) /\ ~active.creditConsumed /\ active.creditSeq = last'.seq)
                => /\ last'.out.consumed
                   /\ HasRow(db, A) =>
                        db'[A].credits_used = Min(db[A].credits_used + 1, db[A].credits_total)
                   /\ \A d \in Ids \ {A} : db'[d].credits_used = db[d].credits_used
                   /\ same => /\ active'.creditsRemaining = active.creditsRemaining - 1
                              /\ active'.creditConsumed
           /\ (active.creditConsumed /\ same) => active'.creditConsumed]_vars

\* a second expiry callback of the live epoch has fired and consumed nothing
C4_Witness ==
    /\ IsExpiry(last.op)
    /\ active # Null
    /\ last.seq = active.creditSeq
    /\ active.creditConsumed
    /\ ~last.out.consumed

\* the session has taken its grab: one credit left, grab-finish timer pending
GrabbedLastCredit ==
    /\ active # Null
    /\ active.timerStarted
    /\ active.grabUsed
    /\ active.creditsRemaining = 1
    /\ active.timer = [kind |-> "grab", seq |-> active.creditSeq, pending |-> TRUE]
    /\ HasRow(db, active.donationId)
    /\ Remaining(db, active.donationId) = 1

\* C5: once a grab has truncated the cycle of a participant A with one credit
\* left, the superseded full-window callback (any expiry callback of another
\* epoch) changes nothing when it fires, the grab-finish expiry consumes exactly
\* one credit and ends A as `done`, and a superseded callback that fires after the
\* session is over changes no participant.
C5_GrabTruncatesOnce ==
    [][/\ (GrabbedLastCredit /\ IsExpiry(last'.op) /\ last'.seq # active.creditSeq)
            => db' = db /\ active' = active
       /\ (GrabbedLastCredit /\ IsExpiry(last'.op) /\ last'.seq = active.creditSeq)
            => LET A == active.donationId
               IN /\ db'[A].credits_used = db[A].credits_used + 1
                  /\ db'[A].status = "done"
                  /\ last'.out.ended = A
                  /\ (active' = Null \/ active'.donationId # A)
       /\ (active = Null /\ IsExpiry(last'.op))
            => db' = db /\ active' = Null]_vars

\* A played move then grab on its last credit, the grab-finish timer ended it as
\* done, and the superseded 35 s callback has fired afterwards
C5_Witness ==
    /\ last.op = "creditTimer"
    /\ last.stale
    /\ active = Null
    /\ \E A \in Ids : /\ db[A].status = "done"
                      /\ db[A].credits_used = db[A].credits_total
                      /\ db[A].credits_used >= 1

\* C6: credit pulses go out only in an activation that finds creditsPulsed unset,
\* one per remaining credit, and set the flag; the flag of a participant is never
\* cleared for as long as its record exists, so no later activation of it pulses
\* again.
C6_PulsedOnce ==
    [][\A d \in Ids :
        /\ (db[d].credits_pulsed /\ HasRow(db', d)) => db'[d].credits_pulsed
        /\ last'.out.pulseId = d
            => /\ ~db[d].credits_pulsed
               /\ HasRow(db', d) => db'[d].credits_pulsed
               /\ last'.out.started = d
               /\ active' # Null
               /\ active'.donationId = d
               /\ last'.out.pulseN = active'.creditsRemaining
               /\ last'.out.pulseN >= 1]_vars

\* a participant that was pulsed and has used a credit is activated again, with
\* no pulse
C6_Witness ==
    /\ last.out.started # 0
    /\ last.out.pulseId = 0
    /\ active # Null
    /\ active.donationId = last.out.started
    /\ db[active.donationId].credits_pulsed
    /\ db[active.donationId].credits_used >= 1

\* C7: a grab while grabUsed is set is rejected with grab_already_used, sends no
\* pulse and leaves the session (flags, deadlines, creditSeq, creditConsumed,
\* creditsRemaining, timers) and the store as they were.
C7_SecondGrabRejected ==
    [][(active # Null /\ active.grabUsed /\ last'.op = "grab")
        => /\ last'.out = [NoOut EXCEPT !.ret = "grab_already_used"]
           /\ active' = active
           /\ orphans' = orphans
           /\ db' = db
           /\ order' = order]_vars

\* a second grab of the cycle has been rejected
C7_Witness ==
    /\ last.op = "grab"
    /\ last.out.ret = "grab_already_used"
    /\ active # Null
    /\ active.grabUsed
    /\ active.timer.pending

\* the first-move timer fires on a session that has not moved
FirstMoveFires == active # Null /\ ~active.hasMoved /\ last'.op = "firstMoveTimer"

\* a participant other than the holder has status `waiting`
OtherWaiting == \E d \in Ids : d # active.donationId /\ db[d].status = "waiting"

\* C8: when the first-move timeout fires, the participant has not moved and nobody
\* else is waiting, the window is renewed: same session, still active, nothing
\* consumed, a first-move timer pending again.
C8_WindowRenewed ==
    [][(FirstMoveFires /\ ~OtherWaiting)
        => /\ db' = db
           /\ active' = [active EXCEPT !.firstMoveTimer =
                            [kind |-> "first", seq |-> 0, pending |-> TRUE]]
           /\ active'.firstMoveDeadline = FIRST_MOVE_MS
           /\ last'.out = [NoOut EXCEPT !.snapshot = 1]]_vars

\* the timeout has fired for a lone participant, who is still active
C8_Witness ==
    /\ last.op = "firstMoveTimer"
    /\ last.out = [NoOut EXCEPT !.snapshot = 1]
    /\ active # Null
    /\ ~active.hasMoved
    /\ active.firstMoveTimer.pending
    /\ db[active.donationId].status = "active"
    /\ \A d \in Ids : d # active.donationId => db[d].status # "waiting"

C10_NextActivated ==
    [][(FirstMoveFires /\ OtherWaiting)
        => /\ active' # Null
           /\ active'.donationId # active.donationId
           /\ last'.out.started = active'.donationId]_vars

\* POST /player/end-active is served while a session exists
ForceEnds == active # Null /\ AdminEndActive

\* C11: an administrative force-end of the active participant A marks A done,
\* clears the session and its timers and attempts the next activation: when the
\* handler returns A is not the holder and no timer of A's session is pending.
C11_ForceEndClears ==
    [][ForceEnds
        => LET A == active.donationId
           IN /\ HasRow(db, A) => db'[A].status = "done"
              /\ (active' = Null \/ active'.donationId # A)
              /\ active' # Null =>
                    /\ last'.out.started = active'.donationId
                    /\ ~active'.timer.pending]_vars

\* POST /status/set {id, status: 'active'} is served
StatusSetActive(id) == HasRow(db, id) /\ Commit(statusSet(State, id, "active"), "admin", FALSE, 0)

\* C12: an administrative force-activate of participant id changes nothing if a
\* session exists or id has no credit left; otherwise id becomes the holder,
\* wherever it stands in the order.
C12_ForceActivate ==
    [][\A id \in Ids : StatusSetActive(id)
        => IF active # Null \/ Remaining(db, id) <= 0
           THEN db' = db /\ order' = order /\ active' = active
           ELSE active' # Null /\ active'.donationId = id]_vars

\* the confirmation of participant id is delivered again: same credits granted
Reconfirms(id) ==
    /\ db[id].status \in {"waiting", "active", "done"}
    /\ \E h \in 1..MaxHalfEuros :
          /\ creditsFor(h) = db[id].credits_total
          /\ Commit(handlePaidDonation(State, id, h), "pay", FALSE, 0)

\* C13: a confirmation for a participant that is already confirmed (waiting,
\* active or done) leaves its status, its place in the order and its credits as
\* they were, and starts no session for it.
C13_PaymentIdempotent ==
    [][\A id \in Ids : Reconfirms(id)
        => /\ db'[id] = db[id]
           /\ order' = order
           /\ last'.out.started # id]_vars

\* C14: a confirmed payment of amount a grants min(5, floor(a)) credits: n
\* credits for n <= a < n + 1 up to 5, exactly 5 from 5 euros on, 3 for 3.70.
C14_CreditsGranted ==
    (payment.id # 0 /\ payment.confirmed)
        => LET c == db[payment.id].credits_total
               a == payment.tenths
           IN /\ c \in 0..5
              /\ 10 * c <= a
              /\ c < 5 => a < 10 * (c + 1)
              /\ a = 37 => c = 3
              /\ a > 59 => c = 5

\* a payment of 3.70 has been confirmed and the participant plays with 3 credits
C14_Witness ==
    /\ payment.confirmed
    /\ payment.tenths = 37
    /\ db[payment.id].credits_total = 3
    /\ active # Null
    /\ active.donationId = payment.id
    /\ active.creditsRemaining = 3

\* C15: boot recovery leaves no participant `active` (each is demoted to
\* waiting) and no waiting participant without remaining credits (each is swept
\* to done); it creates no session and changes no credit balance, flag or place
\* in the order, and no other status.
C15_BootRecovery ==
    [][last'.op = "restart"
        => /\ active' = Null
           /\ last'.out = NoOut
           /\ order' = order
           /\ \A d \in Ids :
                /\ db'[d].status # "active"
                /\ db'[d].status = "waiting" => Remaining(db', d) > 0
                /\ db'[d] = [db[d] EXCEPT !.status = db'[d].status]
                /\ db'[d].status =
                      IF db[d].status \in {"active", "waiting"}
                      THEN (IF Remaining(db, d) > 0 THEN "waiting" ELSE "done")
                      ELSE db[d].status]_vars

\* the process restarted while a participant that had used a credit played and
\* a depleted one waited: the first waits again, the second is done
C15_Witness ==
    /\ last.op = "restart"
    /\ active = Null
    /\ \E a, b \in Ids :
          /\ db[a].status = "waiting"
          /\ db[a].credits_pulsed
          /\ db[a].credits_used >= 1
          /\ db[b].status = "done"
          /\ ~db[b].credits_pulsed
          /\ db[b].credits_total = 0

\* what a handler leaves behind apart from what it published: the store, the
\* session, the timers, what it returned, the actuator calls it made, and whether
\* it ended by an exception
Effect(s) ==
    <<s.db, s.order, s.active, s.orphans, s.out.ret, s.out.thrown, s.out.consumed,
      s.out.grabPulse, s.out.released, s.out.pulseId, s.out.pulseN>>

\* the current state with the realtime server down, and with it up
Down == [State EXCEPT !.pusherUp = FALSE]
Up == [State EXCEPT !.pusherUp = TRUE]

\* a handler run with its publishes failing (down) has the effect of the same
\* handler run with its publishes succeeding (up)
PublishBlind(down, up) == Effect(down) = Effect(up)

\* C16: a failing publish is caught and changes nothing else: every scheduler
\* operation, run from any reachable state, leaves the same store, session and
\* timers, returns the same and raises nothing, whether its publishes fail or not.
C16_PublishFailureCaught ==
    /\ \A id \in Ids, h \in 1..MaxHalfEuros :
          HasRow(db, id) => PublishBlind(handlePaidDonation(Down, id, h), handlePaidDonation(Up, id, h))
    /\ PublishBlind(startCreditTimerIfNeeded(Down, NoLossy), startCreditTimerIfNeeded(Up, NoLossy))
    /\ PublishBlind(handleGrabIfAllowed(Down, NoLossy), handleGrabIfAllowed(Up, NoLossy))
    /\ PublishBlind(maybeStartNext(Down), maybeStartNext(Up))
    /\ PublishBlind(heartbeat(Down), heartbeat(Up))
    /\ (active # Null /\ active.firstMoveTimer.pending)
          => PublishBlind(firstMoveCallback([Down EXCEPT !.active.firstMoveTimer = NoTimer], NoLossy),
                          firstMoveCallback([Up EXCEPT !.active.firstMoveTimer = NoTimer], NoLossy))
    /\ (active # Null /\ active.timer.pending)
          => /\ PublishBlind(
                    creditTimerCallback([Down EXCEPT !.active.timer = NoTimer], active.timer.seq, NoLossy),
                    creditTimerCallback([Up EXCEPT !.active.timer = NoTimer], active.timer.seq, NoLossy))
             /\ PublishBlind(
                    grabTimerCallback([Down EXCEPT !.active.timer = NoTimer], active.timer.seq, NoLossy),
                    grabTimerCallback([Up EXCEPT !.active.timer = NoTimer], active.timer.seq, NoLossy))

\* with the realtime server down a session ended and the next participant was
\* activated: the failures were logged, no event went out
C16_Witness ==
    /\ ~pusherUp
    /\ last.out.logged
    /\ ~last.out.thrown
    /\ IsExpiry(last.op)
    /\ last.out.consumed
    /\ last.out.ended = 0
    /\ last.out.started = 0
    /\ last.out.snapshot = 0
    /\ active # Null
    /\ db[active.donationId].status = "active"
    /\ \E d \in Ids : d # active.donationId /\ db[d].status = "done" /\ Remaining(db, d) = 0
                      /\ db[d].credits_total >= 1

\* C17: a failing actuator call does not block the transition in progress: a grab
\* that is accepted leaves its grab-finish timer pending, and an expiry that takes
\* the last credit of A leaves A done and the session cleared or passed on.
C17_ActuatorFailureIsolated ==
    [][active # Null =>
        /\ (last'.op = "grab" /\ ~active.grabUsed)
              => /\ active' # Null
                 /\ active'.grabUsed
                 /\ active'.timer = [kind |-> "grab", seq |-> active'.creditSeq, pending |-> TRUE]
        /\ (IsExpiry(last'.op) /\ last'.out.consumed /\ active.creditsRemaining = 1)
              => /\ HasRow(db, active.donationId) => db'[active.donationId].status = "done"
                 /\ (active' = Null \/ active'.donationId # active.donationId)]_vars

\* C18: a heartbeat tick only publishes the snapshot (or nothing): the session,
\* the pending timers and every participant record are as before it.
C18_HeartbeatFrame ==
    [][last'.op = "heartbeat"
        => /\ db' = db
           /\ order' = order
           /\ active' = active
           /\ orphans' = orphans
           /\ last'.out \in {NoOut, [NoOut EXCEPT !.snapshot = 1]}]_vars

\* a heartbeat ticked after a restart, with nobody playing and a participant
\* with credits waiting: it published the snapshot and started nobody
C18_Witness ==
    /\ last.op = "heartbeat"
    /\ last.out.snapshot = 1
    /\ active = Null
    /\ \E d \in Ids : db[d].status = "waiting" /\ Remaining(db, d) > 0

\* the waiting participants with credits left, earliest first
Eligible == SelectSeq(order, LAMBDA d : db[d].status = "waiting" /\ Remaining(db, d) > 0)

\* C19: activateNext (POST /player/start-next) with a session present changes
\* nothing. With none, every waiting participant without remaining credits
\* becomes done; the earliest waiting participant with credits becomes the
\* holder, with its remaining credits; with no such participant the scheduler
\* stays idle, sets no status to active and still publishes a snapshot of its own
\* (a second one, after the route's).
C19_ActivateNext ==
    [][AdminStartNext
        => IF active # Null
           THEN /\ db' = db
                /\ order' = order
                /\ active' = active
                /\ last'.out = [NoOut EXCEPT !.snapshot = 1]
           ELSE /\ order' = order
                /\ \A d \in Ids :
                      /\ (db[d].status = "waiting" /\ Remaining(db, d) <= 0)
                            => db'[d].status = "done"
                      /\ db'[d].credits_total = db[d].credits_total
                      /\ db'[d].credits_used = db[d].credits_used
                /\ IF Eligible = <<>>
                   THEN /\ active' = Null
                        /\ \A d \in Ids : db'[d].status = "active" => db[d].status = "active"
                        /\ last'.out = [NoOut EXCEPT !.snapshot = 2]
                   ELSE /\ active' # Null
                        /\ active'.donationId = Head(Eligible)
                        /\ active'.creditsRemaining = Remaining(db, Head(Eligible))
                        /\ db'[Head(Eligible)].status = "active"
                        /\ last'.out.started = Head(Eligible)
                        /\ \A d \in Ids \ {Head(Eligible)} :
                              db'[d].status = "active" => db[d].status = "active"]_vars

\* after a restart two participants with credits waited; start-next activated the
\* one that is first in the order and left the other waiting
C19_Witness ==
    /\ last.op = "admin"
    /\ last.out.started # 0
    /\ active # Null
    /\ active.donationId = last.out.started
    /\ \E d \in Ids :
          /\ d # active.donationId
          /\ db[d].status = "waiting"
          /\ Remaining(db, d) > 0
          /\ \E i, j \in 1..Len(order) : i < j /\ order[i] = active.donationId /\ order[j] = d
    /\ last.out.snapshot = 2

\* C20 as claimed: a grab with no session is rejected as no_active_session.
C20_NoActiveSession ==
    [][(active = Null /\ last'.op = "grab") => last'.out.ret = "no_active_session"]_vars

\* C20 as amended: a grab with no session is rejected as no_active; it sends no
\* pulse, schedules no timer and leaves the scheduler and the store as they were.
C20_NoActive ==
    [][(active = Null /\ last'.op = "grab")
        => /\ last'.out = [NoOut EXCEPT !.ret = "no_active"]
           /\ active' = Null
           /\ orphans' = orphans
           /\ db' = db
           /\ order' = order]_vars

\* a grab arrived with nobody playing (after a restart, a participant waiting)
C20_Witness ==
    /\ last.op = "grab"
    /\ last.out.ret = "no_active"
    /\ active = Null
    /\ \E d \in Ids : db[d].status = "waiting" /\ Remaining(db, d) > 0

C22_DoneTerminal ==
    [][\A d \in Ids : db[d].status = "done" => db'[d].status = "done"]_vars

\* C23: recordFirstAction (startCreditTimerIfNeeded) changes nothing and
\* publishes nothing when no session exists or a credit timer is already running
\* (creditSeq, creditEndsAt, creditConsumed and the pending timers stay as they
\* are); a second call right after a first one changes nothing more, so the
\* moves of one cycle open one credit window.
C23_RecordFirstActionIdempotent ==
    \A lossy \in Lossy :
        /\ (active = Null \/ active.timerStarted)
              => startCreditTimerIfNeeded(State, lossy) = State
        /\ startCreditTimerIfNeeded(startCreditTimerIfNeeded(State, lossy), lossy)
              = startCreditTimerIfNeeded(State, lossy)

\* a move arrived while the credit timer of the cycle was running: nothing was
\* published, the timer of the first move is still the pending one
C23_Witness ==
    /\ last.op = "move"
    /\ last.out = NoOut
    /\ active # Null
    /\ active.timerStarted
    /\ active.hasMoved
    /\ ~active.grabUsed
    /\ active.creditSeq = 1
    /\ active.timer = [kind |-> "credit", seq |-> 1, pending |-> TRUE]

\* C24: the first action of a cycle (a move with no credit timer running)
\* cancels the first-move timer, sets hasMoved and timerStarted, increments
\* creditSeq, clears creditConsumed, sets creditEndsAt to now + CREDIT_MS and
\* leaves one pending timer, the credit timer captured with the new epoch; it
\* publishes credit-start and touches nothing else.
C24_FirstAction ==
    [][(active # Null /\ ~active.timerStarted /\ last'.op = "move")
        => /\ active' = [active EXCEPT
                            !.hasMoved = TRUE,
                            !.firstMoveTimer = NoTimer,
                            !.timerStarted = TRUE,
                            !.creditSeq = active.creditSeq + 1,
                            !.creditConsumed = FALSE,
                            !.creditEndsAt = CREDIT_MS,
                            !.timer = [kind |-> "credit", seq |-> active.creditSeq + 1,
                                       pending |-> TRUE]]
           /\ orphans' = {}
           /\ db' = db
           /\ order' = order
           /\ last'.out = [NoOut EXCEPT !.creditStart = active.donationId]]_vars

\* the first move of a participant's second cycle: epoch 2, its credit timer
\* pending, the first-move timer of the cycle cancelled
C24_Witness ==
    /\ last.op = "move"
    /\ last.out.creditStart # 0
    /\ active # Null
    /\ active.donationId = last.out.creditStart
    /\ active.creditSeq = 2
    /\ active.creditsRemaining = 1
    /\ db[active.donationId].credits_used = 1
    /\ active.hasMoved
    /\ ~active.creditConsumed
    /\ ~active.grabUsed
    /\ active.firstMoveTimer = NoTimer
    /\ active.timer = [kind |-> "credit", seq |-> 2, pending |-> TRUE]

\* the expiry callback of the live epoch fires and its credit is not yet consumed
LiveExpiry ==
    /\ active # Null
    /\ IsExpiry(last'.op)
    /\ last'.seq = active.creditSeq
    /\ ~active.creditConsumed

\* the participants other than A that wait with credits left, earliest first
EligibleBut(A) ==
    SelectSeq(order, LAMBDA d : d # A /\ db[d].status = "waiting" /\ Remaining(db, d) > 0)

\* C25: a non-stale credit expiry (normal or grab-finish) consumes a credit. With
\* credits remaining the session stays the participant's, its per-cycle flags
\* are reset (timerStarted, hasMoved, grabUsed false, creditEndsAt empty) and a
\* new first-move window is open. With none remaining the participant is marked
\* done and the session is cleared and passed to the next participant: the
\* earliest other one waiting with credits, if there is one.
C25_ExpiryOutcome ==
    [][LiveExpiry =>
        LET A == active.donationId
        IN /\ last'.out.consumed
           /\ IF active.creditsRemaining > 1
              THEN /\ active' = [active EXCEPT
                                    !.creditsRemaining = active.creditsRemaining - 1,
                                    !.creditConsumed = TRUE,
                                    !.timer = NoTimer,
                                    !.timerStarted = FALSE,
                                    !.hasMoved = FALSE,
                                    !.grabUsed = FALSE,
                                    !.creditEndsAt = 0,
                                    !.firstMoveDeadline = FIRST_MOVE_MS,
                                    !.firstMoveTimer = [kind |-> "first", seq |-> 0,
                                                        pending |-> TRUE]]
                   /\ db'[A].status = db[A].status
                   /\ last'.out.ended = 0
              ELSE /\ db'[A].status = "done"
                   /\ last'.out.ended = A
                   /\ IF EligibleBut(A) = <<>>
                      THEN active' = Null
                      ELSE /\ active' # Null
                           /\ active'.donationId = Head(EligibleBut(A))
                           /\ db'[Head(EligibleBut(A))].status = "active"
                           /\ last'.out.started = Head(EligibleBut(A))]_vars

\* a credit timer took the first of a participant's two credits: the participant
\* still plays, flags reset, first-move timer pending
C25_Witness ==
    /\ last.op = "creditTimer"
    /\ last.out.consumed
    /\ last.out.ended = 0
    /\ active # Null
    /\ active.creditsRemaining = 1
    /\ active.creditConsumed
    /\ ~active.timerStarted
    /\ ~active.hasMoved
    /\ ~active.grabUsed
    /\ active.creditEndsAt = 0
    /\ active.firstMoveTimer.pending
    /\ db[active.donationId].status = "active"
    /\ db[active.donationId].credits_used = 1

\* C26: a grab accepted before any move of the cycle acts as the first action:
\* hasMoved, timerStarted and grabUsed are set, the first-move timer is cancelled,
\* creditEndsAt is now + GRAB_FINISH_MS, and the one pending timer is the
\* grab-finish timer of the live epoch (the full-window timer opened on the way is
\* cancelled). The expiry that follows a grab is that timer's; it consumes exactly
\* one credit.
C26_GrabAsFirstAction ==
    [][active # Null =>
        LET A == active.donationId
        IN /\ (~active.hasMoved /\ ~active.grabUsed /\ last'.op = "grab")
                => /\ active' = [active EXCEPT
                                    !.hasMoved = TRUE,
                                    !.timerStarted = TRUE,
                                    !.grabUsed = TRUE,
                                    !.firstMoveTimer = NoTimer,
                                    !.creditEndsAt = GRAB_FINISH_MS,
                                    !.creditSeq = active.creditSeq + 2,
                                    !.creditConsumed = FALSE,
                                    !.timer = [kind |-> "grab", seq |-> active.creditSeq + 2,
                                               pending |-> TRUE]]
                   /\ orphans' = {}
                   /\ db' = db
                   /\ last'.out = [NoOut EXCEPT !.ret = "ok", !.grabPulse = TRUE,
                                                !.creditStart = A]
           /\ (active.grabUsed /\ IsExpiry(last'.op))
                => /\ last'.op = "grabTimer"
                   /\ last'.seq = active.creditSeq
                   /\ last'.out.consumed
                   /\ db'[A].credits_used = Min(db[A].credits_used + 1, db[A].credits_total)
                   /\ \A d \in Ids \ {A} : db'[d].credits_used = db[d].credits_used
                   /\ (active' # Null /\ active'.donationId = A)
                         => active'.creditsRemaining = active.creditsRemaining - 1]_vars

\* a participant's first action of its second cycle was a grab
C26_Witness ==
    /\ last.op = "grab"
    /\ last.out.ret = "ok"
    /\ last.out.grabPulse
    /\ active # Null
    /\ active.hasMoved
    /\ active.timerStarted
    /\ active.grabUsed
    /\ active.firstMoveTimer = NoTimer
    /\ active.creditEndsAt = GRAB_FINISH_MS
    /\ active.creditSeq = 3
    /\ active.timer = [kind |-> "grab", seq |-> 3, pending |-> TRUE]
    /\ db[active.donationId].credits_used = 1

\* C27: a grab that is accepted sends exactly one grab pulse and a grab that is
\* rejected sends none; no other handler sends one. A pulse therefore goes out
\* only for a session that had not used its grab, and grabUsed stays set until
\* the cycle's credit is consumed or the session is over: at most one grab pulse
\* per credit cycle, none without a session.
C27_OneGrabPulse ==
    [][/\ last'.out.grabPulse
            => /\ last'.op = "grab"
               /\ active # Null
               /\ ~active.grabUsed
               /\ active' # Null
               /\ active'.donationId = active.donationId
               /\ active'.grabUsed
       /\ last'.op = "grab" => (last'.out.grabPulse <=> last'.out.ret = "ok")
       /\ (active # Null /\ active.grabUsed /\ active' # Null /\ ~active'.grabUsed)
            => \/ IsExpiry(last'.op) /\ last'.out.consumed
               \/ last'.out.ended = active.donationId]_vars

\* a grab was accepted and pulsed the actuator once; the session has used its grab
C27_Witness ==
    /\ last.op = "grab"
    /\ last.out.ret = "ok"
    /\ last.out.grabPulse
    /\ active # Null
    /\ active.grabUsed
    /\ active.creditSeq = 2
    /\ active.timer = [kind |-> "grab", seq |-> 2, pending |-> TRUE]

\* C28: a first-move timeout callback that is stale (its timer was cancelled or
\* replaced: it belongs to an earlier window or an earlier session), or that finds
\* no session or hasMoved set, changes nothing and publishes nothing, even when
\* the cancellation of its timer did not stop it.
C28_StaleFirstMoveNoEffect ==
    [][(last'.op = "firstMoveTimer" /\ (last'.stale \/ active = Null \/ active.hasMoved))
        => /\ db' = db
           /\ order' = order
           /\ active' = active
           /\ orphans' \subseteq orphans
           /\ last'.out = NoOut]_vars

\* C29: when the store's decrement fails in a credit expiry of the live epoch,
\* the handler ends by the exception (it reaches the caller) and nothing is rolled
\* back: creditConsumed is set, the rest of the session is as at the failure
\* (creditsRemaining, flags, epoch; the fired timer gone), the store is unchanged
\* and nothing is published.
C29_StoreFailureSurfaced ==
    [][(LiveExpiry /\ CreditTimerStoreDown)
        => /\ last'.out = [NoOut EXCEPT !.thrown = TRUE]
           /\ active' = [active EXCEPT !.creditConsumed = TRUE, !.timer = NoTimer]
           /\ db' = db
           /\ order' = order
           /\ orphans' = orphans]_vars

\* the 35 s timer of a participant's last credit expired while the store failed:
\* the session stays, creditConsumed set, its credit still there on both sides
C29_Witness ==
    /\ last.op = "creditTimer"
    /\ last.out.thrown
    /\ active # Null
    /\ active.creditConsumed
    /\ active.creditSeq = last.seq
    /\ active.creditsRemaining = 1
    /\ active.timerStarted
    /\ active.timer = NoTimer
    /\ db[active.donationId].status = "active"
    /\ Remaining(db, active.donationId) = 1

\* C30: at every handler boundary a session that exists has at least one credit
\* remaining.
C30_SessionHasCredit ==
    active # Null => active.creditsRemaining >= 1

\* the per-cycle fields of session a agree: timerStarted, hasMoved and a set
\* creditEndsAt go together, and a used grab implies a started timer
CycleCoherent(a) ==
    /\ a.timerStarted <=> a.hasMoved
    /\ a.timerStarted <=> a.creditEndsAt # 0
    /\ a.grabUsed => a.timerStarted

\* C31: after every handler the per-cycle fields of the session are coherent
\* (timerStarted, hasMoved and a set creditEndsAt all true or all false; grabUsed
\* only with timerStarted), and creditSeq of a session that continues has not
\* decreased.
C31_CycleCoherent ==
    [][/\ active' # Null => CycleCoherent(active')
       /\ (active # Null /\ active' # Null /\ active'.donationId = active.donationId)
            => active'.creditSeq >= active.creditSeq]_vars

\* a grab-finish expiry reopened the cycle of a participant with a credit left:
\* the flags are all cleared and the epoch is kept
C31_Witness ==
    /\ last.op = "grabTimer"
    /\ last.out.consumed
    /\ active # Null
    /\ active.creditSeq = 2
    /\ ~active.timerStarted
    /\ ~active.hasMoved
    /\ ~active.grabUsed
    /\ active.creditEndsAt = 0
    /\ active.creditsRemaining = 1

\* C32: after every handler a session that exists has exactly one timer pending:
\* its first-move timer while timerStarted is false, its credit-expiry timer, of
\* the current creditSeq, while timerStarted is true; also after a handler in
\* which a store or actuator call failed.
C32_NeverStuck ==
    active # Null =>
        IF active.timerStarted
        THEN /\ active.timer.pending
             /\ active.timer.seq = active.creditSeq
             /\ ~active.firstMoveTimer.pending
        ELSE /\ active.firstMoveTimer.pending
             /\ ~active.timer.pending

\* C33: after every handler, if no session exists then no participant is
\* waiting with a credit left.
C33_WorkConserving ==
    active = Null => \A d \in Ids : ~(db[d].status = "waiting" /\ Remaining(db, d) >= 1)

\* C34: the session and the ledger agree on who is playing: the holder of the
\* session has a row with status `active`, and a row with status `active` is
\* the holder's.
C34_SessionLedgerAgree ==
    /\ active # Null => HasRow(db, active.donationId) /\ db[active.donationId].status = "active"
    /\ \A d \in Ids : db[d].status = "active" => active # Null /\ active.donationId = d

\* C35: while a session exists, its creditsRemaining equals the credits_total -
\* credits_used persisted for its participant, after every handler.
C35_RemainingMatchesLedger ==
    active # Null => active.creditsRemaining = Remaining(db, active.donationId)

\* a step that ends the session: the slot is free afterwards, or a new session
\* was started in it
SessionEnds == active # Null /\ (active' = Null \/ last'.out.started # 0)

\* C36: no timer callback scheduled during a session that has ended can act on a
\* later session: no timer is ever pending that the live session does not hold
\* (every handle that is replaced or given up was cleared first), and a step
\* that ends a session leaves none of its timers pending, so the session that
\* follows starts with no credit timer and only the first-move timer of its own
\* activation.
C36_NoTimerOutlivesSession ==
    [][/\ orphans' = {}
       /\ (SessionEnds /\ active' # Null) => (~active'.timer.pending /\ active'.creditSeq = 0)]_vars

\* the last credit of A ran out in a credit or grab expiry, A's session ended with
\* its timers cleared and B, who had been waiting, was activated in its place
C36_Witness ==
    /\ IsExpiry(last.op)
    /\ last.out.ended # 0
    /\ last.out.started # 0
    /\ last.out.started # last.out.ended
    /\ active # Null
    /\ active.donationId = last.out.started
    /\ active.firstMoveTimer.pending
    /\ orphans = {}

\* C37: no starvation: when every scheduled timer eventually fires, a participant
\* that is waiting with at least one credit left is eventually activated.
C37_NoStarvation ==
    \A d \in Ids :
        (db[d].status = "waiting" /\ Remaining(db, d) >= 1)
            ~> (active # Null /\ active.donationId = d)

\* C38: the ledger of a session, step by step. A session of A is created with
\* creditsRemaining = credits_total - credits_used and nothing charged; while it
\* lasts, credits_used + creditsRemaining keeps its value (one credit cycle
\* completed: one more used, one less remaining); the expiry that ends it as
\* completed consumes its last credit and leaves A done with nothing remaining,
\* so credits_used has grown by the creditsRemaining it was created with; a
\* first-move timeout that ends it before any credit cycle has begun has
\* charged nothing.
C38_SessionCharged ==
    [][\A A \in Ids :
         /\ (last'.out.started = A /\ active' # Null /\ active'.donationId = A)
               => /\ active'.creditsRemaining = Remaining(db', A)
                  /\ db'[A].credits_used = db[A].credits_used
         /\ (active # Null /\ active.donationId = A)
               => /\ (active' # Null /\ active'.donationId = A /\ last'.out.started = 0)
                        => db'[A].credits_used + active'.creditsRemaining
                              = db[A].credits_used + active.creditsRemaining
                  /\ (IsExpiry(last'.op) /\ last'.out.ended = A)
                        => /\ active.creditsRemaining = 1
                           /\ db'[A].credits_used = db[A].credits_used + 1
                           /\ db'[A].status = "done"
                           /\ Remaining(db', A) = 0
                  /\ (last'.op = "firstMoveTimer" /\ last'.out.ended = A /\ active.creditSeq = 0)
                        => /\ active.creditsRemaining = Remaining(db, A)
                           /\ db'[A].credits_used = db[A].credits_used]_vars

\* event a was published before event b by the handler that published ev
PublishedBefore(ev, a, b) ==
    \E i, j \in 1..Len(ev) : i < j /\ ev[i] = a /\ ev[j] = b

\* a credit-start is published for the holder of the session only, and after a
\* player-end of A the session is not A's unless A was started again
CreditStartInSession ==
    \A A \in Ids :
        /\ last'.out.creditStart = A => active # Null /\ active.donationId = A /\ last'.out.ended # A
        /\ last'.out.ended = A => active' = Null \/ active'.donationId # A \/ last'.out.started = A

\* C39: when a first-move timeout ends A's session and B is activated in its
\* place, the player-end and the player-timeout of A are both published before
\* the player-start of B; and no credit-start of a participant follows its
\* player-end unless it was started again.
C39_EventOrder ==
    [][/\ (last'.op = "firstMoveTimer" /\ last'.out.timedOut # 0 /\ last'.out.started # 0)
            => /\ PublishedBefore(last'.out.events, "ended", "started")
               /\ PublishedBefore(last'.out.events, "timedOut", "started")
       /\ CreditStartInSession]_vars

\* id a stands before id b in the order of created_at
Ahead(a, b) ==
    \E i, j \in 1..Len(order') : i < j /\ order'[i] = a /\ order'[j] = b

\* the activation attempt that follows boot recovery, whatever request makes it
Reactivation ==
    maybeStartNext([State EXCEPT !.db = db', !.order = order',
                                 !.active = active', !.orphans = orphans'])

\* C40: a restart in the middle of the session of A, persisted active with a
\* credit left, leaves A waiting with the credits_total, credits_used and place
\* in the order it had (the cycle in progress is not charged); the next
\* activation takes A, or someone who stands before A in the order, never one
\* who joined later; and the reactivation of A gives it its remaining credits
\* and issues no credit pulse.
C40_RestartKeepsTurn ==
    [][\A A \in Ids :
         (/\ last'.op = "restart"
          /\ active # Null /\ active.donationId = A
          /\ db[A].status = "active" /\ Remaining(db, A) >= 1)
            => /\ db'[A] = [db[A] EXCEPT !.status = "waiting"]
               /\ order' = order
               /\ active' = Null
               /\ Reactivation.active # Null
               /\ LET first == Reactivation.active.donationId
                  IN /\ first = A \/ Ahead(first, A)
                     /\ first = A => /\ Reactivation.active.creditsRemaining = Remaining(db, A)
                                     /\ Reactivation.out.pulseN = 0]_vars

\* A, one of its two credits used, was playing when the process restarted: A
\* waits again with one credit used, and B, who paid after A, waits behind it
C40_Witness ==
    /\ last.op = "restart"
    /\ active = Null
    /\ \E A, B \in Ids :
          /\ A # B
          /\ db[A].status = "waiting" /\ db[A].credits_used = 1 /\ db[A].credits_total = 2
          /\ db[A].credits_pulsed
          /\ db[B].status = "waiting" /\ Remaining(db, B) >= 1 /\ ~db[B].credits_pulsed
          /\ \E i, j \in 1..Len(order) : i < j /\ order[i] = A /\ order[j] = B

====
